---- MODULE Spec2Model ----
(***************************************************************************)
(* A model of scripts/gen_programs.py (PCCoder dataset generation).       *)
(*                                                                         *)
(* Two specifications share this module:                                   *)
(*   EnumSpec  the enumeration phase of gen_programs: the pool of          *)
(*             gen_program_worker tasks (one per input-type signature),    *)
(*             each running the recursive helper on an explicit call      *)
(*             stack, with the shared progress counter;                    *)
(*   Spec      main: cache loading, the per-length build loop with its     *)
(*             three pools, test sampling and the output files.            *)
(***************************************************************************)
EXTENDS Integers, Sequences, FiniteSets, TLC

(***************************************************************************)
(* Bounds of the model.                                                    *)
(***************************************************************************)
\* params.num_inputs: the largest number of program inputs
NumInputs == 2
\* the largest target length (program_len) explored
MaxProgramLen == 2
\* the largest quota (num_programs) explored
MaxQuota == 3
\* the largest number of processes of a pool (args.num_workers)
MaxWorkers == 2
\* the largest args.num_train and args.num_test
MaxNumTrain == 1
MaxNumTest == 2
\* the largest number of lines of a cache file, and of statements of a cached program
MaxCacheLines == 2
MaxCacheLen == 1
\* the input points on which programs are executed
NumPoints == 1
\* the values a program can return on an input
NumOutputs == 3

(***************************************************************************)
(* The DSL: types, the function catalogue and the lambdas (dsl.types,      *)
(* dsl.impl).  A variable index is a natural number, a lambda a negative   *)
(* number, so that an argument tuple is a sequence of integers.            *)
(***************************************************************************)
INT == "INT"
LIST == "LIST"
FN == "FN"

ALL_FUNCTIONS == <<"COUNT", "TAKE">>

LAMBDAS == <<-1>>

\* func.type of a lambda
LambdaType(l) == FN

\* function.input_type, as the list iterate_inputs makes of it
FunctionInputTypes(f) ==
    CASE f = "COUNT" -> <<FN, LIST>>
      [] f = "TAKE"  -> <<INT, LIST>>

FunctionOutputType(f) ==
    CASE f = "COUNT" -> INT
      [] f = "TAKE"  -> LIST

Range(s) == {s[i] : i \in 1..Len(s)}

\* every order random.shuffle can leave a list in
Shuffles(s) ==
    {p \in [1..Len(s) -> Range(s)] : \A i, j \in 1..Len(s) : i # j => p[i] # p[j]}

(***************************************************************************)
(* Programs (dsl.program.Program)                                          *)
(***************************************************************************)
Program(input_types, statements) ==
    [input_types |-> input_types, statements |-> statements]

Statement(function, args) == [func |-> function, args |-> args]

\* Program.__len__
ProgramLen(program) == Len(program.statements)

\* Program.var_types: the inputs' types, then each statement's output type
VarTypes(program) ==
    program.input_types \o
    [k \in 1..Len(program.statements) |-> FunctionOutputType(program.statements[k].func)]

\* dsl.program.get_used_indices: the variable indices some statement takes
get_used_indices(program) ==
    UNION {Range(program.statements[k].args) : k \in 1..Len(program.statements)}
        \cap Nat

\* dsl.program.get_unused_indices: the inputs and intermediate results that no
\* statement takes (the last statement's result is the program's output)
get_unused_indices(program) ==
    (0..(Len(VarTypes(program)) - 2)) \ get_used_indices(program)

get_free_indices(program, plen) ==
    (0..(plen + Len(program.input_types) - 1)) \ get_used_indices(program)

(***************************************************************************)
(* get_input_type_combinations                                             *)
(***************************************************************************)
ListsThenInts(num_list, n) ==
    [k \in 1..n |-> IF k <= num_list THEN LIST ELSE INT]

\* the loop of line 38 from 0 lists on: the all-int signature is built too
RECURSIVE CombinationsFromNoList(_)
CombinationsFromNoList(n) ==
    IF n = 0 THEN <<>>
    ELSE CombinationsFromNoList(n - 1) \o [k \in 1..(n + 1) |-> ListsThenInts(k - 1, n)]

RECURSIVE CombinationsUpTo(_)
CombinationsUpTo(n) ==
    IF n = 0 THEN <<>>
    ELSE CombinationsUpTo(n - 1) \o [num_list \in 1..n |-> ListsThenInts(num_list, n)]

get_input_type_combinations(n) == CombinationsUpTo(n)

(***************************************************************************)
(* helper's candidate index: type_to_vars                                  *)
(***************************************************************************)
\* for i, typ in enumerate(var_types): type_to_vars[typ].insert(0, i)
RECURSIVE VarsOfType(_, _, _)
VarsOfType(var_types, typ, n) ==
    IF n = 0 THEN <<>>
    ELSE IF var_types[n] = typ
         THEN <<n - 1>> \o VarsOfType(var_types, typ, n - 1)
         ELSE VarsOfType(var_types, typ, n - 1)

RemoveAt(s, k) == [i \in 1..(Len(s) - 1) |-> IF i < k THEN s[i] ELSE s[i + 1]]

\* one pass of "for var in l: if var in free: l.remove(var); l.insert(0, var)";
\* the list iterator is at position k of the list as it is now
RECURSIVE MoveFreePass(_, _, _)
MoveFreePass(l, free, k) ==
    IF k > Len(l) THEN l
    ELSE IF l[k] \in free
         THEN MoveFreePass(<<l[k]>> \o RemoveAt(l, k), free, k + 1)
         ELSE MoveFreePass(l, free, k + 1)

\* the pass is run once for every variable of the type
RECURSIVE MoveFree(_, _, _)
MoveFree(l, free, passes) ==
    IF passes = 0 THEN l
    ELSE MoveFree(MoveFreePass(l, free, 1), free, passes - 1)

LambdasOfType(typ) ==
    SelectSeq(LAMBDAS, LAMBDA l : LambdaType(l) = typ)

Types == {INT, LIST, FN}

\* lines 90-103: the candidates of every type, free variables first, then
\* the lambdas of the type
type_to_vars(program, plen) ==
    [typ \in Types |->
        LET vt == VarTypes(program)
            l0 == VarsOfType(vt, typ, Len(vt))
        IN MoveFree(l0, get_free_indices(program, plen), Len(l0))
           \o LambdasOfType(typ)]

(***************************************************************************)
(* iterate_inputs: the cartesian product, in itertools.product's order     *)
(***************************************************************************)
RECURSIVE Product(_)
Product(argslists) ==
    IF Len(argslists) = 0 THEN << <<>> >>
    ELSE LET rest == Product(Tail(argslists))
             hd == Head(argslists)
         IN [n \in 1..(Len(hd) * Len(rest)) |->
                <<hd[((n - 1) \div Len(rest)) + 1]>> \o rest[((n - 1) % Len(rest)) + 1]]

iterate_inputs(function, ttv) ==
    LET input_types == FunctionInputTypes(function)
    IN Product([k \in 1..Len(input_types) |-> ttv[input_types[k]]])

(***************************************************************************)
(* State                                                                   *)
(***************************************************************************)
VARIABLES
    \* ---- the enumeration phase of gen_programs ----
    num_inputs,         \* params.num_inputs: the most inputs a program takes
    program_len,        \* the target length (global of the pool's processes)
    num_programs,       \* the quota (global of the pool's processes)
    num_workers,        \* args.num_workers: the processes of a pool
    progress_counter,   \* multiprocessing.Value('i', 0), shared by the workers
    wstate,             \* per task: where gen_program_worker is
    res,                \* per task: its result set
    functions,          \* per task: the function list helper shuffles in place
    stack,              \* per task: helper's active calls, outermost first
    callee,             \* per task: the program of the call being entered
    tmp,                \* per task: the value read by "progress_counter.value += 1"
    added,              \* per task: the programs added since helper was called from line 122
    increments,         \* per task: how often it has executed line 86
    gen_pc,             \* where gen_programs is
    programs,           \* gen_programs: the flattened result, as a set
    \* ---- main ----
    pc,                 \* where main is
    cache,              \* args.cache: the cache file, or none
    num_train,          \* args.num_train
    num_test,           \* args.num_test
    max_train_len,      \* args.max_train_len
    test_lens,          \* the set made of args.test_lengths
    min_len,            \* the largest length of the loaded cache, or 0
    examples,           \* the corpus: program -> examples
    behaviour,          \* what each executed program computes, per input point
    program_list,       \* gen_programs: list(set(programs)), in the list's order
    ex_state,           \* per task of gen_examples_pool.map: where it is
    ex_res,             \* per task of gen_examples_pool.map: what it returned
    new_examples,       \* the dictionary gen_programs returned
    existing_programs,  \* the keys of the corpus, as given to the third pool
    new_programs,       \* list(new_examples.keys())
    new_example_parts,  \* the shards handed to discard_pool.map
    dstate,             \* per task of discard_pool.map: where it is
    dres,               \* per task of discard_pool.map: what it returned
    train_programs,     \* the training pool
    tests_left,         \* the test lengths the loop has still to take
    test_len,           \* the test length in hand
    test_candidates,    \* the shuffled candidates of that length
    indices_to_discard,
    test_programs,      \* the test set of the length in hand
    ti,                 \* the sampling loop's index i
    test_files,         \* test length -> the records written to its file
    train_file          \* the records written to the train file

enumVars == <<num_inputs, program_len, num_programs, num_workers, progress_counter, wstate,
              res, functions, stack, callee, tmp, added, increments, gen_pc,
              programs>>

mainVars == <<pc, cache, num_train, num_test, max_train_len, test_lens, min_len,
              examples, behaviour, program_list, ex_state, ex_res, new_examples,
              existing_programs, new_programs, new_example_parts, dstate, dres, train_programs,
              tests_left, test_len, test_candidates, indices_to_discard,
              test_programs, ti, test_files, train_file>>

vars == <<enumVars, mainVars>>

\* the tasks of gen_prog_pool.map: one per input-type signature
input_type_combinations == get_input_type_combinations(num_inputs)

Tasks == 1..Len(input_type_combinations)

NoFunction == "none"

\* a call of helper past its early returns: its program, the locals built
\* before the loops (lines 90-105) and the loops' positions: fi functions
\* fetched by the function loop, fn the one in hand, ai argument tuples taken
\* from iterate_inputs(fn), tried the functions fetched so far, in order
Frame(program, plen) ==
    [program |-> program,
     type_to_vars |-> type_to_vars(program, plen),
     free_indxs |-> get_free_indices(program, plen),
     fi |-> 0, fn |-> NoFunction, ai |-> 0, tried |-> <<>>]

(***************************************************************************)
(* helper's loops (lines 106-116): from a frame's position, the next       *)
(* statement that passes both filters, or none when the function loop ends *)
(***************************************************************************)
HasFreeArg(args, free_indxs) == \E a \in 1..Len(args) : args[a] \in free_indxs

ArgsOf(frame, fn) ==
    IF fn = NoFunction THEN <<>> ELSE iterate_inputs(fn, frame.type_to_vars)

\* lines 108-112
Skipped(frame, fn, args) ==
    \/ ~HasFreeArg(args, frame.free_indxs)
    \/ Statement(fn, args) \in Range(frame.program.statements)

RECURSIVE Scan(_, _, _, _, _)
Scan(frame, funcs, fi, fn, ai) ==
    IF ai >= Len(ArgsOf(frame, fn))
    THEN \* the argument loop is over: the function loop fetches from the
         \* list as it is now
         IF fi >= Len(funcs)
         THEN [found |-> FALSE]
         ELSE Scan(frame, funcs, fi + 1, funcs[fi + 1], 0)
    ELSE IF Skipped(frame, fn, ArgsOf(frame, fn)[ai + 1])
         THEN Scan(frame, funcs, fi, fn, ai + 1)
         ELSE [found |-> TRUE, fi |-> fi, fn |-> fn, ai |-> ai + 1,
               statement |-> Statement(fn, ArgsOf(frame, fn)[ai + 1])]

NextCandidate(frame, funcs) == Scan(frame, funcs, frame.fi, frame.fn, frame.ai)

(***************************************************************************)
(* gen_program_worker                                                      *)
(***************************************************************************)
Running == {t \in Tasks : wstate[t] \notin {"pending", "returned"}}

\* map queues the tasks in order and a free process of the pool takes the
\* first one waiting: lines 119-120
WorkerStart(t) ==
    /\ wstate[t] = "pending"
    /\ \A u \in Tasks : u < t => wstate[u] # "pending"
    /\ Cardinality(Running) < num_workers
    /\ wstate' = [wstate EXCEPT ![t] = "while"]
    /\ res' = [res EXCEPT ![t] = {}]
    /\ added' = [added EXCEPT ![t] = 0]
    /\ increments' = [increments EXCEPT ![t] = 0]
    /\ UNCHANGED mainVars
    /\ UNCHANGED <<num_inputs, program_len, num_programs, num_workers, progress_counter,
                   functions, stack, callee, tmp, gen_pc, programs>>

\* line 121: the loop test reads the shared counter
QuotaReached(counter, quota) == counter >= quota

\* lines 121-123
WorkerLoop(t) ==
    /\ wstate[t] = "while"
    /\ IF QuotaReached(progress_counter, num_programs)
       THEN /\ wstate' = [wstate EXCEPT ![t] = "returned"]
            /\ functions' = [functions EXCEPT ![t] = ALL_FUNCTIONS]
            /\ UNCHANGED callee
       ELSE /\ UNCHANGED functions
            /\ wstate' = [wstate EXCEPT ![t] = "enter"]
            /\ callee' = [callee EXCEPT ![t] = Program(input_type_combinations[t], <<>>)]
    /\ added' = [added EXCEPT ![t] = 0]
    /\ UNCHANGED increments
    /\ UNCHANGED mainVars
    /\ UNCHANGED <<num_inputs, program_len, num_programs, num_workers, progress_counter,
                   res, stack, tmp, gen_pc, programs>>

\* line 81
AtTargetLen(program, plen) == ProgramLen(program) >= plen

\* line 82 without its first test: only a program already found is rejected
RejectsOnlyDuplicates(program, progs) == program \in progs

\* line 82
Rejected(program, progs) ==
    get_unused_indices(program) # {} \/ program \in progs

\* a True from a call makes only that call's caller go on with its loops
KeepsFrames(frames) == frames

\* lines 116-117 (and 79, 88): a call that returns True makes every enclosing
\* call return True in turn, down to line 122
Unwound(frames) == <<>>

\* the argument of a call is gone once the call has returned
NoCall(t) == Program(input_type_combinations[t], <<>>)

\* lines 77-88 and 90-105: a call of helper, up to its loops or its return
HelperEnter(t) ==
    /\ wstate[t] = "enter"
    /\ \E shuffled \in Shuffles(functions[t]) :
         functions' = [functions EXCEPT ![t] = shuffled]
    /\ IF QuotaReached(progress_counter, num_programs)
       THEN \* return True: every enclosing call returns True in turn
            /\ wstate' = [wstate EXCEPT ![t] =
                   IF Unwound(stack[t]) = <<>> THEN "while" ELSE "iter"]
            /\ stack' = [stack EXCEPT ![t] = Unwound(stack[t])]
            /\ callee' = [callee EXCEPT ![t] = NoCall(t)]
            /\ UNCHANGED <<res, added>>
       ELSE IF AtTargetLen(callee[t], program_len)
            THEN IF Rejected(callee[t], res[t])
                 THEN \* return False: the caller's loops go on
                      /\ wstate' = [wstate EXCEPT ![t] =
                             IF stack[t] = <<>> THEN "while" ELSE "iter"]
                      /\ callee' = [callee EXCEPT ![t] = NoCall(t)]
                      /\ UNCHANGED <<stack, res, added>>
                 ELSE /\ res' = [res EXCEPT ![t] = res[t] \cup {callee[t]}]
                      /\ added' = [added EXCEPT ![t] = added[t] + 1]
                      /\ wstate' = [wstate EXCEPT ![t] = "inc_read"]
                      /\ UNCHANGED <<stack, callee>>
            ELSE /\ stack' = [stack EXCEPT ![t] = Append(stack[t], Frame(callee[t], program_len))]
                 /\ wstate' = [wstate EXCEPT ![t] = "iter"]
                 /\ callee' = [callee EXCEPT ![t] = NoCall(t)]
                 /\ UNCHANGED <<res, added>>
    /\ UNCHANGED increments
    /\ UNCHANGED mainVars
    /\ UNCHANGED <<num_inputs, program_len, num_programs, num_workers, progress_counter,
                   tmp, gen_pc, programs>>

\* lines 106-117: the innermost call's loops run on to the next recursive call,
\* or end, and the call returns None to its caller
HelperIter(t) ==
    /\ wstate[t] = "iter"
    /\ LET n == Len(stack[t])
           nc == NextCandidate(stack[t][n], functions[t])
       IN IF nc.found
          THEN /\ stack' = [stack EXCEPT ![t][n].fi = nc.fi,
                                         ![t][n].fn = nc.fn,
                                         ![t][n].ai = nc.ai,
                                         ![t][n].tried = stack[t][n].tried \o
                                             SubSeq(functions[t], stack[t][n].fi + 1, nc.fi)]
               /\ callee' = [callee EXCEPT ![t] =
                      Program(stack[t][n].program.input_types,
                              Append(stack[t][n].program.statements, nc.statement))]
               /\ wstate' = [wstate EXCEPT ![t] = "enter"]
          ELSE /\ stack' = [stack EXCEPT ![t] = SubSeq(stack[t], 1, n - 1)]
               /\ wstate' = [wstate EXCEPT ![t] = IF n = 1 THEN "while" ELSE "iter"]
               /\ UNCHANGED callee
    /\ UNCHANGED <<added, increments>>
    /\ UNCHANGED mainVars
    /\ UNCHANGED <<num_inputs, program_len, num_programs, num_workers, progress_counter,
                   res, functions, tmp, gen_pc, programs>>

\* line 86, first half: "progress_counter.value += 1" reads the value
IncRead(t) ==
    /\ wstate[t] = "inc_read"
    /\ tmp' = [tmp EXCEPT ![t] = progress_counter]
    /\ wstate' = [wstate EXCEPT ![t] = "inc_write"]
    /\ UNCHANGED <<added, increments>>
    /\ UNCHANGED mainVars
    /\ UNCHANGED <<num_inputs, program_len, num_programs, num_workers, progress_counter,
                   res, functions, stack, callee, gen_pc, programs>>

\* line 86, second half, and line 88: the sum is stored, helper returns True and
\* every enclosing call returns True in turn
IncWrite(t) ==
    /\ wstate[t] = "inc_write"
    /\ progress_counter' = tmp[t] + 1
    /\ increments' = [increments EXCEPT ![t] = increments[t] + 1]
    /\ wstate' = [wstate EXCEPT ![t] = IF Unwound(stack[t]) = <<>> THEN "while" ELSE "iter"]
    /\ stack' = [stack EXCEPT ![t] = Unwound(stack[t])]
    /\ callee' = [callee EXCEPT ![t] = NoCall(t)]
    /\ tmp' = [tmp EXCEPT ![t] = 0]
    /\ UNCHANGED added
    /\ UNCHANGED mainVars
    /\ UNCHANGED <<num_inputs, program_len, num_programs, num_workers, res, functions,
                   gen_pc, programs>>

\* a pool hands its tasks out in order, to the processes that are free
PoolCanStart(states, k) ==
    /\ states[k] = "pending"
    /\ \A u \in 1..(k - 1) : states[u] # "pending"
    /\ Cardinality({u \in 1..Len(states) : states[u] = "running"}) < num_workers

\* a map that returns with the first result there is
MapDoneAtFirstResult(states) == \E k \in 1..Len(states) : states[k] = "returned"

\* a blocking map returns when every task has
MapDone(states) == \A k \in 1..Len(states) : states[k] = "returned"

\* lines 170-175: map returns when every task has, and the results are flattened
MapReturn ==
    /\ gen_pc = "enumerate"
    /\ MapDone(wstate)
    /\ programs' = UNION {res[t] : t \in Tasks}
    /\ gen_pc' = "examples"
    /\ UNCHANGED <<added, increments>>
    /\ UNCHANGED mainVars
    /\ UNCHANGED <<num_inputs, program_len, num_programs, num_workers, progress_counter,
                   wstate, res, functions, stack, callee, tmp>>

WorkerNext(t) ==
    \/ WorkerStart(t)
    \/ WorkerLoop(t)
    \/ HelperEnter(t)
    \/ HelperIter(t)
    \/ IncRead(t)
    \/ IncWrite(t)

(***************************************************************************)
(* Dictionaries, examples and the two oracles (dsl.constraint)             *)
(***************************************************************************)
EmptyDict == [q \in {} |-> {}]

\* d1.update(d2)
Update(d1, d2) ==
    [q \in DOMAIN d1 \cup DOMAIN d2 |-> IF q \in DOMAIN d2 THEN d2[q] ELSE d1[q]]

Points == 1..NumPoints

Outputs == 0..(NumOutputs - 1)

\* what a program can compute: an output for every input point
Behaviours == [Points -> Outputs]

\* the examples of a behaviour on some input points
ExamplesOf(beh, pts) == {[inputs |-> pt, output |-> beh[pt]] : pt \in pts}

\* constraint.is_same(program, other, examples): other is run on the inputs of
\* every example and its output compared with the example's
is_same(program, other, exs) ==
    \A e \in exs : behaviour[other][e.inputs] = e.output

\* main and the later phases of gen_programs, before they have started
MainIdle ==
    /\ pc = "gen_programs"
    /\ cache = [given |-> FALSE, lines |-> <<>>]
    /\ num_train = 0
    /\ num_test = 0
    /\ max_train_len = 0
    /\ test_lens = {}
    /\ min_len = 0
    /\ examples = EmptyDict
    /\ behaviour = EmptyDict
    /\ program_list = <<>>
    /\ ex_state = <<>>
    /\ ex_res = <<>>
    /\ new_examples = EmptyDict
    /\ existing_programs = {}
    /\ new_programs = <<>>
    /\ new_example_parts = <<>>
    /\ dstate = <<>>
    /\ dres = <<>>
    /\ train_programs = {}
    /\ tests_left = {}
    /\ test_len = 0
    /\ test_candidates = <<>>
    /\ indices_to_discard = {}
    /\ test_programs = <<>>
    /\ ti = 0
    /\ test_files = EmptyDict
    /\ train_file = [written |-> FALSE, records |-> {}]

\* lines 165-170: the counter at 0, the pool, one task per signature
EnumInit ==
    /\ num_inputs \in 1..NumInputs
    /\ program_len \in 1..MaxProgramLen
    /\ num_programs \in 1..MaxQuota
    /\ num_workers \in 1..MaxWorkers
    /\ progress_counter = 0
    /\ wstate = [t \in Tasks |-> "pending"]
    /\ res = [t \in Tasks |-> {}]
    /\ functions = [t \in Tasks |-> ALL_FUNCTIONS]
    /\ stack = [t \in Tasks |-> <<>>]
    /\ callee = [t \in Tasks |-> NoCall(t)]
    /\ tmp = [t \in Tasks |-> 0]
    /\ added = [t \in Tasks |-> 0]
    /\ increments = [t \in Tasks |-> 0]
    /\ gen_pc = "enumerate"
    /\ programs = {}
    /\ MainIdle

EnumNext ==
    \/ \E t \in Tasks : WorkerNext(t)
    \/ MapReturn

EnumSpec == EnumInit /\ [][EnumNext]_vars

\* the tasks there can be, whatever params.num_inputs is
AllTasks == 1..Len(get_input_type_combinations(NumInputs))

\* every process of the pool keeps running, and so does the parent
EnumFairSpec ==
    /\ EnumSpec
    /\ \A t \in AllTasks : WF_vars(t \in Tasks /\ WorkerNext(t))
    /\ WF_vars(MapReturn)

(***************************************************************************)
(* The search space of helper: the programs its loops can build            *)
(***************************************************************************)
Extensions(program, plen) ==
    {Program(program.input_types, Append(program.statements, Statement(f, args))) :
        <<f, args>> \in
            {fa \in UNION {{<<g, a>> : a \in Range(iterate_inputs(g, type_to_vars(program, plen)))} :
                              g \in Range(ALL_FUNCTIONS)} :
                /\ HasFreeArg(fa[2], get_free_indices(program, plen))
                /\ Statement(fa[1], fa[2]) \notin Range(program.statements)}}

RECURSIVE Buildable(_, _, _)
Buildable(input_types, n, plen) ==
    IF n = 0 THEN {Program(input_types, <<>>)}
    ELSE UNION {Extensions(q, plen) : q \in Buildable(input_types, n - 1, plen)}

\* the programs helper can accept for a signature
ValidPrograms(input_types, plen) ==
    {q \in Buildable(input_types, plen, plen) : get_unused_indices(q) = {}}

AllValidPrograms(plen) ==
    UNION {ValidPrograms(input_type_combinations[t], plen) : t \in Tasks}

RECURSIVE SumOver(_, _)
SumOver(f, S) ==
    IF S = {} THEN 0
    ELSE LET x == CHOOSE y \in S : TRUE IN f[x] + SumOver(f, S \ {x})

\* the programs accepted so far by all workers
TotalAccepted == SumOver([t \in Tasks |-> Cardinality(res[t])], Tasks)

(***************************************************************************)
(* main: the inputs                                                        *)
(***************************************************************************)
KNOWN_TRAIN_SIZES == (1 :> 47) @@ (2 :> 2883)

\* the programs a cache file may hold
CachePrograms == UNION {AllValidPrograms(n) : n \in 1..MaxCacheLen}

Malformed == [ok |-> FALSE, program |-> Program(<<>>, <<>>), examples |-> {}]

\* a line of a cache file: a record of a program with examples of it, or
\* something json.loads or Program.parse raises on
CacheLines(beh) ==
    {Malformed} \cup
    {[ok |-> TRUE, program |-> q, examples |-> ExamplesOf(beh[q], pts)] :
        q \in CachePrograms, pts \in SUBSET Points \ {{}}}

SeqsUpTo(S, n) == UNION {[1..k -> S] : k \in 0..n}

CacheFiles(beh) == SeqsUpTo(CacheLines(beh), MaxCacheLines)

\* the programs of the well-formed lines of a file
ProgramsIn(lines) == {lines[k].program : k \in {j \in 1..Len(lines) : lines[j].ok}}

Init ==
    /\ num_inputs \in 1..NumInputs
    /\ num_train \in 1..MaxNumTrain
    /\ num_test \in 1..MaxNumTest
    /\ max_train_len \in 1..MaxProgramLen
    /\ test_lens \in SUBSET (1..MaxProgramLen)
    /\ num_workers \in 1..MaxWorkers
    /\ \E beh \in [CachePrograms -> Behaviours] :
         /\ cache \in {[given |-> FALSE, lines |-> <<>>]} \cup
                      {[given |-> TRUE, lines |-> l] : l \in CacheFiles(beh)}
         /\ behaviour = [q \in ProgramsIn(cache.lines) |-> beh[q]]
    /\ pc = "start"
    /\ min_len = 0
    /\ examples = EmptyDict
    /\ program_len = 0
    /\ num_programs = 0
    /\ progress_counter = 0
    /\ wstate = [t \in Tasks |-> "returned"]
    /\ res = [t \in Tasks |-> {}]
    /\ functions = [t \in Tasks |-> ALL_FUNCTIONS]
    /\ stack = [t \in Tasks |-> <<>>]
    /\ callee = [t \in Tasks |-> NoCall(t)]
    /\ tmp = [t \in Tasks |-> 0]
    /\ added = [t \in Tasks |-> 0]
    /\ increments = [t \in Tasks |-> 0]
    /\ gen_pc = "idle"
    /\ programs = {}
    /\ program_list = <<>>
    /\ ex_state = <<>>
    /\ ex_res = <<>>
    /\ new_examples = EmptyDict
    /\ existing_programs = {}
    /\ new_programs = <<>>
    /\ new_example_parts = <<>>
    /\ dstate = <<>>
    /\ dres = <<>>
    /\ train_programs = {}
    /\ tests_left = {}
    /\ test_len = 0
    /\ test_candidates = <<>>
    /\ indices_to_discard = {}
    /\ test_programs = <<>>
    /\ ti = 0
    /\ test_files = EmptyDict
    /\ train_file = [written |-> FALSE, records |-> {}]

inputVars == <<cache, num_train, num_test, max_train_len, test_lens, num_workers,
              num_inputs>>

workerVars == <<functions, stack, callee, tmp, added, increments>>

sampleVars == <<train_programs, tests_left, test_len, test_candidates,
                indices_to_discard, test_programs, ti, test_files, train_file>>

dedupVars == <<existing_programs, new_programs, new_example_parts, dstate, dres>>

exampleVars == <<program_list, ex_state, ex_res, new_examples>>

enumerateVars == <<progress_counter, wstate, res, programs>>

enumVarsButInputs == <<program_len, num_programs, progress_counter, wstate, res,
                       functions, stack, callee, tmp, added, increments, gen_pc,
                       programs>>

(***************************************************************************)
(* load_cache, and main up to its loop (lines 281-286)                     *)
(***************************************************************************)
\* a load that looks at the first record only
FailsOnFirstLine(lines) == Len(lines) > 0 /\ ~lines[1].ok

\* line 196: json.loads of every line, and line 200: Program.parse
LoadFails(lines) == \E k \in 1..Len(lines) : ~lines[k].ok

\* lines 197-203: a later record of a program replaces an earlier one
RECURSIVE LoadedFrom(_, _)
LoadedFrom(lines, n) ==
    IF n = 0 THEN EmptyDict
    ELSE Update(LoadedFrom(lines, n - 1),
                [q \in {lines[n].program} |-> lines[n].examples])

load_cache(lines) == LoadedFrom(lines, Len(lines))

MaxOf(S) == CHOOSE x \in S : \A y \in S : y <= x

LoadCache ==
    /\ pc = "start"
    /\ IF ~cache.given
       THEN /\ examples' = EmptyDict
            /\ min_len' = 0
            /\ pc' = "loop"
       ELSE IF LoadFails(cache.lines) \/ cache.lines = <<>>
            THEN \* load_cache raises, or max() of no length does: main ends
                 /\ pc' = "crashed"
                 /\ UNCHANGED <<examples, min_len>>
            ELSE /\ examples' = load_cache(cache.lines)
                 /\ min_len' = MaxOf({ProgramLen(q) : q \in DOMAIN examples'})
                 /\ pc' = "loop"
    /\ program_len' = min_len'
    /\ UNCHANGED <<inputVars, workerVars, enumerateVars, exampleVars, dedupVars,
                   sampleVars, num_programs, gen_pc, behaviour>>

(***************************************************************************)
(* The build loop (lines 288-307) and gen_programs (lines 165-188)         *)
(***************************************************************************)
Min(a, b) == IF a <= b THEN a ELSE b

\* a loop that starts at length 1 whatever the cache holds
FirstLenIgnoringCache(cached) == 1

\* line 288
FirstLen(cached) == cached + 1

\* lines 289-291
Quota(plen) ==
    IF plen \in DOMAIN KNOWN_TRAIN_SIZES
    THEN Min(num_train + num_test, KNOWN_TRAIN_SIZES[plen])
    ELSE num_train + num_test

\* lines 288-294 and 165-170: the loop takes its next length and gen_programs
\* hands one task per signature to its first pool; or the loop is over
\* (line 309).  What the last turn left in the loop's locals is dropped here:
\* each is assigned again before it is read.
LoopHead ==
    /\ pc = "loop"
    /\ LET next == IF gen_pc = "idle" THEN FirstLen(min_len)
                   ELSE program_len + 1
       IN IF next <= max_train_len
          THEN /\ program_len' = next
               /\ num_programs' = Quota(next)
               /\ progress_counter' = 0
               /\ wstate' = [t \in Tasks |-> "pending"]
               /\ res' = [t \in Tasks |-> {}]
               /\ programs' = {}
               /\ gen_pc' = "enumerate"
               /\ pc' = "gen_programs"
               /\ UNCHANGED <<train_programs, tests_left>>
          ELSE /\ train_programs' = DOMAIN examples
               /\ tests_left' = test_lens
               /\ pc' = "tests"
               /\ UNCHANGED <<program_len, num_programs, progress_counter, wstate,
                              res, programs, gen_pc>>
    /\ program_list' = <<>>
    /\ ex_state' = <<>>
    /\ ex_res' = <<>>
    /\ new_examples' = EmptyDict
    /\ existing_programs' = {}
    /\ new_programs' = <<>>
    /\ new_example_parts' = <<>>
    /\ dstate' = <<>>
    /\ dres' = <<>>
    /\ UNCHANGED <<inputVars, workerVars, min_len, examples, behaviour, test_len,
                   test_candidates, indices_to_discard, test_programs, ti,
                   test_files, train_file>>

\* gen_program_worker by its result, lines 121-123 with 81-88: a restart of
\* the search that is past both tests of the counter adds one program helper
\* can accept and counts it; the worker returns once the counter is at the
\* quota.  (EnumSpec runs the search itself, statement by statement.)
WorkerSummary(t) ==
    /\ wstate[t] = "while"
    /\ IF QuotaReached(progress_counter, num_programs)
       THEN /\ wstate' = [wstate EXCEPT ![t] = "returned"]
            /\ UNCHANGED <<res, progress_counter>>
       ELSE /\ \E q \in ValidPrograms(input_type_combinations[t], program_len) \ res[t] :
                 res' = [res EXCEPT ![t] = res[t] \cup {q}]
            /\ progress_counter' = progress_counter + 1
            /\ UNCHANGED wstate
    /\ UNCHANGED mainVars
    /\ UNCHANGED <<num_inputs, program_len, num_programs, num_workers, workerVars, gen_pc,
                   programs>>

\* lines 177-184: the flattened set as a list, in whatever order the set
\* gives, and one task per program for the second pool
ExamplesMap ==
    /\ pc = "gen_programs"
    /\ gen_pc = "examples"
    /\ \E l \in [1..Cardinality(programs) -> programs] :
         /\ Range(l) = programs
         /\ program_list' = l
    /\ ex_state' = [k \in 1..Cardinality(programs) |-> "pending"]
    /\ ex_res' = [k \in 1..Cardinality(programs) |-> {}]
    /\ gen_pc' = "example_pool"
    /\ UNCHANGED <<inputVars, workerVars, enumerateVars, dedupVars, sampleVars,
                   program_len, num_programs, pc, min_len, examples, behaviour,
                   new_examples>>

\* the second pool starts a task
ExampleStart(k) ==
    /\ gen_pc = "example_pool"
    /\ PoolCanStart(ex_state, k)
    /\ ex_state' = [ex_state EXCEPT ![k] = "running"]
    /\ UNCHANGED <<inputVars, workerVars, enumerateVars, dedupVars, sampleVars,
                   program_len, num_programs, pc, gen_pc, min_len, examples,
                   behaviour, program_list, ex_res, new_examples>>

\* gen_examples_worker, lines 133-141: the Example Oracle executes the program
\* on some input points, or fails and the worker returns None (no example)
ExampleFinish(k) ==
    /\ gen_pc = "example_pool"
    /\ ex_state[k] = "running"
    /\ LET program == program_list[k]
       IN \E beh \in Behaviours, pts \in SUBSET Points :
            /\ program \in DOMAIN behaviour => beh = behaviour[program]
            /\ behaviour' = IF pts = {} THEN behaviour
                            ELSE Update(behaviour, [q \in {program} |-> beh])
            /\ ex_res' = [ex_res EXCEPT ![k] = ExamplesOf(beh, pts)]
    /\ ex_state' = [ex_state EXCEPT ![k] = "returned"]
    /\ UNCHANGED <<inputVars, workerVars, enumerateVars, dedupVars, sampleVars,
                   program_len, num_programs, pc, gen_pc, min_len, examples,
                   program_list, new_examples>>

\* a filter that keeps the programs the Oracle failed on as well
KeepsEverything(v) == TRUE

\* line 187, "if v": a worker's None (no example) is dropped
Truthy(v) == v # {}

\* a sharding that gives a worker one program only: new_programs[i:i+1]
OneProgramEach(l, i, n) == SubSeq(l, i + 1, Min(i + 1, Len(l)))

\* new_programs[i::num_workers], for i from 0: every num_workers-th program
Shard(l, i, n) ==
    LET idx == {k \in 1..Len(l) : (k - 1) % n = i}
        nth(j) == CHOOSE k \in idx : Cardinality({u \in idx : u < k}) = j - 1
    IN [j \in 1..Cardinality(idx) |-> l[nth(j)]]

\* lines 185-188 and 296-304: the programs with examples, in the list's
\* order; gen_programs returns and main hands the shards to its pool
ExamplesReturn ==
    /\ pc = "gen_programs"
    /\ gen_pc = "example_pool"
    /\ MapDone(ex_state)
    /\ LET kept == SelectSeq([k \in 1..Len(program_list) |-> k],
                             LAMBDA k : Truthy(ex_res[k]))
           dict == [q \in {program_list[kept[j]] : j \in 1..Len(kept)} |->
                       ex_res[CHOOSE k \in 1..Len(program_list) : program_list[k] = q]]
           keys == [j \in 1..Len(kept) |-> program_list[kept[j]]]
       IN /\ new_examples' = dict
          /\ existing_programs' = DOMAIN examples
          /\ new_programs' = keys
          /\ new_example_parts' =
                 [d \in 1..num_workers |->
                     LET part == Shard(keys, d - 1, num_workers)
                     IN [q \in Range(part) |-> dict[q]]]
    /\ dstate' = [d \in 1..num_workers |-> "pending"]
    /\ dres' = [d \in 1..num_workers |-> EmptyDict]
    /\ gen_pc' = "returned"
    /\ pc' = "discard_pool"
    /\ UNCHANGED <<inputVars, workerVars, enumerateVars, sampleVars, program_len,
                   num_programs, min_len, examples, behaviour, program_list,
                   ex_state, ex_res>>

\* the third pool starts a task
DiscardStart(d) ==
    /\ pc = "discard_pool"
    /\ PoolCanStart(dstate, d)
    /\ dstate' = [dstate EXCEPT ![d] = "running"]
    /\ UNCHANGED <<inputVars, workerVars, enumerateVars, exampleVars, sampleVars,
                   program_len, num_programs, pc, gen_pc, min_len, examples,
                   behaviour, existing_programs, new_programs, new_example_parts,
                   dres>>

\* a worker that deletes a new program only when every existing program is
\* the same on the new program's examples
DiscardedWhenAllSame(program, existing, exs) ==
    existing # {} /\ \A other \in existing : is_same(program, other, exs)

\* lines 221-225: a new program is deleted when some existing program is the
\* same on the new program's examples
Discarded(program, existing, exs) ==
    \E other \in existing : is_same(program, other, exs)

\* discard_identical_worker, lines 214-228; existing_programs are the keys of
\* the corpus as main gave them to the pool
DiscardFinish(d) ==
    /\ pc = "discard_pool"
    /\ dstate[d] = "running"
    /\ LET shard == new_example_parts[d]
           survivors == {q \in DOMAIN shard : ~Discarded(q, existing_programs, shard[q])}
       IN dres' = [dres EXCEPT ![d] = [q \in survivors |-> shard[q]]]
    /\ dstate' = [dstate EXCEPT ![d] = "returned"]
    /\ UNCHANGED <<inputVars, workerVars, enumerateVars, exampleVars, sampleVars,
                   program_len, num_programs, pc, gen_pc, min_len, examples,
                   behaviour, existing_programs, new_programs, new_example_parts>>

RECURSIVE UpdateAll(_, _, _)
UpdateAll(dict, results, n) ==
    IF n = 0 THEN dict
    ELSE Update(UpdateAll(dict, results, n - 1), results[n])

\* lines 304-307: map has returned and main merges what the workers kept
Merge ==
    /\ pc = "discard_pool"
    /\ MapDone(dstate)
    /\ examples' = UpdateAll(examples, dres, Len(dres))
    /\ pc' = "loop"
    /\ UNCHANGED <<inputVars, workerVars, enumerateVars, exampleVars, dedupVars,
                   sampleVars, program_len, num_programs, gen_pc, min_len,
                   behaviour>>

(***************************************************************************)
(* Test sampling and the output files (lines 309-349)                      *)
(***************************************************************************)
\* write_programs_to_file: a record per program, with its examples
Record(q) == [program |-> q, examples |-> examples[q]]

Records(progs) == {Record(q) : q \in progs}

\* lines 313-319: a test length is taken, its programs leave the training
\* pool and are shuffled
TestBegin(tl) ==
    /\ pc = "tests"
    /\ tl \in tests_left
    /\ LET cands == {x \in train_programs : Len(x.statements) = tl}
       IN /\ \E l \in [1..Cardinality(cands) -> cands] :
                /\ Range(l) = cands
                /\ test_candidates' = l
          /\ train_programs' = train_programs \ cands
    /\ tests_left' = tests_left \ {tl}
    /\ test_len' = tl
    /\ test_programs' = <<>>
    /\ indices_to_discard' = {}
    /\ ti' = 0
    /\ pc' = "sampling"
    /\ UNCHANGED <<inputVars, enumVarsButInputs, exampleVars, dedupVars, min_len,
                   examples, behaviour, test_files, train_file>>

\* line 332: the candidate that enumerate(test_candidates[i+1:]) pairs with j
OtherIndex(i, j) == i + 1 + j

\* line 336: the index added to indices_to_discard on a match
MarkedIndex(i, j) == j

\* line 333: the index looked up in indices_to_discard before comparing
SkipIndex(i, j) == j

\* lines 332-336, from the j-th candidate after i on (indices from 0, as in
\* the code; the sequence is indexed from 1)
RECURSIVE Compare(_, _, _, _, _)
Compare(program, cands, i, j, discard) ==
    IF OtherIndex(i, j) >= Len(cands) THEN discard
    ELSE IF SkipIndex(i, j) \in discard
         THEN Compare(program, cands, i, j + 1, discard)
         ELSE IF is_same(program, cands[OtherIndex(i, j) + 1], examples[program])
              THEN Compare(program, cands, i, j + 1, discard \cup {MarkedIndex(i, j)})
              ELSE Compare(program, cands, i, j + 1, discard)

\* a test that lets the loop go on until the set is over the count
TestSetOverfull == Len(test_programs) > num_test

\* line 321
TestSetFull == Len(test_programs) >= num_test

\* lines 320-336: one turn of the loop over the shuffled candidates
TestIter ==
    /\ pc = "sampling"
    /\ ti < Len(test_candidates)
    /\ ~TestSetFull
    /\ IF ti \in indices_to_discard
       THEN UNCHANGED <<test_programs, indices_to_discard>>
       ELSE /\ test_programs' = Append(test_programs, test_candidates[ti + 1])
            /\ indices_to_discard' =
                   Compare(test_candidates[ti + 1], test_candidates, ti, 0,
                           indices_to_discard \cup {ti})
    /\ ti' = ti + 1
    /\ UNCHANGED <<inputVars, enumVarsButInputs, exampleVars, dedupVars, min_len,
                   examples, behaviour, pc, train_programs, tests_left, test_len,
                   test_candidates, test_files, train_file>>

\* every candidate goes back to the training pool
AllCandidates(cands, discard) == Range(cands)

\* line 340: the candidates that go back to the training pool
Unselected(cands, discard) ==
    {cands[k + 1] : k \in {u \in 0..(Len(cands) - 1) : u \notin discard}}

\* lines 337-345: the loop is over; the pool gets candidates back and the
\* test file of the length is written
TestEnd ==
    /\ pc = "sampling"
    /\ ti >= Len(test_candidates) \/ TestSetFull
    /\ train_programs' = train_programs \cup Unselected(test_candidates, indices_to_discard)
    /\ test_files' = Update(test_files,
           [l \in {test_len} |-> [k \in 1..Len(test_programs) |-> Record(test_programs[k])]])
    /\ pc' = "tests"
    /\ UNCHANGED <<inputVars, enumVarsButInputs, exampleVars, dedupVars, min_len,
                   examples, behaviour, tests_left, test_len, test_candidates,
                   indices_to_discard, test_programs, ti, train_file>>

\* lines 347-349
WriteTrain ==
    /\ pc = "tests"
    /\ tests_left = {}
    /\ train_file' = [written |-> TRUE, records |-> Records(train_programs)]
    /\ pc' = "done"
    /\ UNCHANGED <<inputVars, enumVarsButInputs, exampleVars, dedupVars, min_len,
                   examples, behaviour, train_programs, tests_left, test_len,
                   test_candidates, indices_to_discard, test_programs, ti,
                   test_files>>

Next ==
    \/ LoadCache
    \/ LoopHead
    \/ \E t \in Tasks : WorkerStart(t)
    \/ \E t \in Tasks : WorkerSummary(t)
    \/ MapReturn
    \/ ExamplesMap
    \/ \E k \in 1..Len(ex_state) : ExampleStart(k)
    \/ \E k \in 1..Len(ex_state) : ExampleFinish(k)
    \/ ExamplesReturn
    \/ \E d \in 1..Len(dstate) : DiscardStart(d)
    \/ \E d \in 1..Len(dstate) : DiscardFinish(d)
    \/ Merge
    \/ \E tl \in tests_left : TestBegin(tl)
    \/ TestIter
    \/ TestEnd
    \/ WriteTrain

Spec == Init /\ [][Next]_vars

(***************************************************************************)
(* C1: every program in a worker's result set has exactly program_len      *)
(* statements, and each of its inputs and intermediate results (every      *)
(* variable but the last statement's result) is an argument of one of its  *)
(* statements.                                                             *)
(***************************************************************************)
Referenced(q, i) ==
    \E k \in 1..Len(q.statements) :
        \E a \in 1..Len(q.statements[k].args) : q.statements[k].args[a] = i

AcceptedProgramsComplete ==
    \A t \in Tasks : \A q \in res[t] :
        /\ Len(q.statements) = program_len
        /\ q.input_types = input_type_combinations[t]
        /\ \A i \in 0..(Len(q.input_types) + Len(q.statements) - 2) : Referenced(q, i)

\* two workers hold programs of two statements after map has returned
AcceptedProgramsWitness ==
    /\ gen_pc = "examples"
    /\ program_len = 2
    /\ \E t, u \in Tasks : t # u /\ res[t] # {} /\ res[u] # {}
    /\ \E t \in Tasks : Cardinality(res[t]) >= 2

(***************************************************************************)
(* C5: the enumeration phase terminates, also when the quota exceeds the   *)
(* number of valid programs of the target length over all signatures.      *)
(***************************************************************************)
QuotaUnreachable == num_programs > Cardinality(AllValidPrograms(program_len))

EnumerationTerminates ==
    QuotaUnreachable => <>(\A t \in Tasks : wstate[t] = "returned")

(***************************************************************************)
(* C7: no increment of the shared counter is lost: when the enumeration    *)
(* phase has ended the counter equals the number of programs accepted by   *)
(* all workers.                                                            *)
(***************************************************************************)
CounterCountsAccepted ==
    gen_pc = "examples" => progress_counter = TotalAccepted


(***************************************************************************)
(* C2: after every iteration of the build loop no two distinct programs    *)
(* that the loop merged into the corpus are judged equivalent on the       *)
(* examples of one of them, two programs of one batch included.            *)
(***************************************************************************)
LoopMerged(q) == q \in DOMAIN examples /\ ProgramLen(q) > min_len

CorpusFreeOfEquivalents ==
    (pc = "loop" /\ gen_pc # "idle") =>
        \A a, b \in DOMAIN examples :
            (a # b /\ LoopMerged(a) /\ LoopMerged(b)) => ~is_same(a, b, examples[a])

(***************************************************************************)
(* C2, as the code has it: a program that the loop merged is not judged    *)
(* equivalent, on its own examples, to any program that was in the corpus  *)
(* before its batch, that is to any cached or shorter program.             *)
(***************************************************************************)
NewProgramsDifferFromEarlier ==
    \A n, o \in DOMAIN examples :
        (LoopMerged(n) /\ ProgramLen(o) < ProgramLen(n)) => ~is_same(n, o, examples[n])

\* a batch of length 2 has been merged into a corpus with programs of
\* length 1: one of its programs was kept and one was discarded
NewProgramsDifferWitness ==
    /\ pc = "loop"
    /\ program_len = 2
    /\ \E o \in DOMAIN examples : ProgramLen(o) = 1
    /\ \E n \in DOMAIN new_examples : n \in DOMAIN examples
    /\ \E n \in DOMAIN new_examples : n \notin DOMAIN examples

(***************************************************************************)
(* C3: no program written to a test file is judged equivalent to a program *)
(* written to that file before it (the candidate matched by an accepted    *)
(* program is marked and never accepted afterwards).                       *)
(***************************************************************************)
TestFilesFreeOfEquivalents ==
    \A l \in DOMAIN test_files :
        \A m, n \in 1..Len(test_files[l]) :
            m < n => ~is_same(test_files[l][m].program, test_files[l][n].program,
                              test_files[l][m].examples)

(***************************************************************************)
(* C4: once a length's test file is written, the training pool holds no    *)
(* program of that length that is judged equivalent to a program of the    *)
(* file.                                                                   *)
(***************************************************************************)
PoolFreeOfTestEquivalents ==
    \A l \in DOMAIN test_files :
        \A k \in 1..Len(test_files[l]) :
            \A q \in train_programs :
                ProgramLen(q) = l =>
                    ~is_same(test_files[l][k].program, q, test_files[l][k].examples)

(***************************************************************************)
(* C6: when the candidates of a test length fall into K classes of         *)
(* mutually equivalent programs and more than K test programs are asked    *)
(* for, the test set holds exactly K programs, one of each class.          *)
(***************************************************************************)
Candidates == Range(test_candidates)

SameClass(a, b) == is_same(a, b, examples[a]) /\ is_same(b, a, examples[b])

FallIntoClasses ==
    \A a, b, c \in Candidates :
        /\ is_same(a, b, examples[a]) <=> is_same(b, a, examples[b])
        /\ (SameClass(a, b) /\ SameClass(b, c)) => SameClass(a, c)

Classes == {{b \in Candidates : SameClass(a, b)} : a \in Candidates}

TestSetOnePerClass ==
    (/\ pc = "tests"
     /\ test_len \in DOMAIN test_files
     /\ FallIntoClasses
     /\ num_test > Cardinality(Classes)) =>
        /\ Len(test_programs) = Cardinality(Classes)
        /\ \A c \in Classes : Cardinality(c \cap Range(test_programs)) = 1

(***************************************************************************)
(* C8: after a cache with programs of length up to k is loaded, every      *)
(* cached program stays in the corpus with the examples it was loaded      *)
(* with, the corpus gets no other program of length <= k, and no program   *)
(* of length <= k is enumerated, given to the example workers or given to  *)
(* the deduplication workers.                                              *)
(***************************************************************************)
CachedMax == MaxOf({ProgramLen(cache.lines[k].program) : k \in 1..Len(cache.lines)})

CachedBucketsUnchanged ==
    (cache.given /\ pc \notin {"start", "crashed"}) =>
        LET loaded == load_cache(cache.lines)
        IN /\ \A q \in DOMAIN loaded : q \in DOMAIN examples /\ examples[q] = loaded[q]
           /\ \A q \in DOMAIN examples : ProgramLen(q) <= CachedMax => q \in DOMAIN loaded
           /\ gen_pc # "idle" => program_len > CachedMax
           /\ \A t \in Tasks : \A q \in res[t] : ProgramLen(q) > CachedMax
           /\ \A k \in 1..Len(program_list) : ProgramLen(program_list[k]) > CachedMax
           /\ \A d \in 1..Len(new_example_parts) :
                  \A q \in DOMAIN new_example_parts[d] : ProgramLen(q) > CachedMax

\* a cache of two programs of length 1 was loaded and a batch of length 2
\* has been merged into the corpus
CachedBucketsWitness ==
    /\ cache.given
    /\ pc = "loop"
    /\ program_len = 2
    /\ Cardinality(DOMAIN load_cache(cache.lines)) = 2
    /\ \E q \in DOMAIN examples : ProgramLen(q) = 2

(***************************************************************************)
(* C9: when a record of the cache file is malformed, main stops at the     *)
(* load: the corpus stays empty, no enumeration, example or deduplication  *)
(* worker is ever started and no output file is written.                   *)
(***************************************************************************)
HasMalformedRecord == cache.given /\ \E k \in 1..Len(cache.lines) : ~cache.lines[k].ok

MalformedCacheStopsMain ==
    HasMalformedRecord =>
        /\ pc \in {"start", "crashed"}
        /\ examples = EmptyDict
        /\ gen_pc = "idle"
        /\ \A t \in Tasks : wstate[t] = "returned" /\ res[t] = {}
        /\ ex_state = <<>>
        /\ dstate = <<>>
        /\ test_files = EmptyDict
        /\ ~train_file.written

\* main has ended at the load of a cache whose first record is well-formed
\* and whose second is not
MalformedCacheWitness ==
    /\ pc = "crashed"
    /\ Len(cache.lines) = 2
    /\ cache.lines[1].ok
    /\ ~cache.lines[2].ok

(***************************************************************************)
(* C10: the phases of a length do not interleave: an example worker is     *)
(* started or has run only when every enumeration worker has returned, a   *)
(* deduplication worker only when every example worker has returned as     *)
(* well, and the corpus changes only at the load of the cache and in       *)
(* main's merge, when every worker of the three pools has returned.        *)
(***************************************************************************)
AllReturned(states) == \A k \in DOMAIN states : states[k] = "returned"

Started(states) == \E k \in DOMAIN states : states[k] # "pending"

PhaseBarriers ==
    /\ Started(ex_state) => AllReturned(wstate)
    /\ Started(dstate) => AllReturned(wstate) /\ AllReturned(ex_state)

CorpusUpdatedByMain ==
    examples' # examples =>
        \/ pc = "start"
        \/ /\ pc = "discard_pool"
           /\ AllReturned(wstate) /\ AllReturned(ex_state) /\ AllReturned(dstate)

PhasesNeverInterleave == [](PhaseBarriers) /\ [][CorpusUpdatedByMain]_vars

\* a deduplication worker runs after two enumeration workers and two
\* example workers have returned
PhasesWitness ==
    /\ \E d \in DOMAIN dstate : dstate[d] = "running"
    /\ Len(ex_state) >= 2
    /\ Cardinality({t \in Tasks : res[t] # {}}) >= 2


(***************************************************************************)
(* C11: the mapping that gen_programs returns holds exactly the enumerated *)
(* programs for which the Example Oracle produced examples, each with the  *)
(* examples produced for it; a program the Oracle fails on is dropped and  *)
(* main goes on.                                                           *)
(***************************************************************************)
WithExamples == {k \in 1..Len(program_list) : ex_res[k] # {}}

ReturnedMappingExact ==
    (gen_pc = "returned" /\ pc \in {"discard_pool", "loop"}) =>
        /\ Range(program_list) = UNION {res[t] : t \in Tasks}
        /\ DOMAIN new_examples = {program_list[k] : k \in WithExamples}
        /\ \A k \in WithExamples : new_examples[program_list[k]] = ex_res[k]
        /\ \A q \in DOMAIN new_examples :
               \A e \in new_examples[q] : behaviour[q][e.inputs] = e.output

\* gen_programs has returned after the Oracle failed on one program and
\* produced examples for another
ReturnedMappingWitness ==
    /\ gen_pc = "returned"
    /\ pc = "discard_pool"
    /\ \E k \in 1..Len(program_list) : ex_res[k] = {}
    /\ \E k \in 1..Len(program_list) : ex_res[k] # {}

(***************************************************************************)
(* C12: with any number of workers, every program of the new batch is in   *)
(* exactly one shard, and after the merge a program of the batch is in the *)
(* corpus, with its examples, if and only if no program of the corpus as   *)
(* it stood before the batch is judged equivalent to it on the new         *)
(* program's examples; the corpus holds its earlier programs and the       *)
(* survivors, nothing else.                                                *)
(***************************************************************************)
ShardsOf(q) == {d \in 1..Len(new_example_parts) : q \in DOMAIN new_example_parts[d]}

HasEquivalentBefore(q) ==
    \E o \in existing_programs : is_same(q, o, new_examples[q])

MergedIffNoEquivalent ==
    /\ pc = "discard_pool" =>
          /\ Len(new_example_parts) = num_workers
          /\ \A q \in DOMAIN new_examples : Cardinality(ShardsOf(q)) = 1
    /\ (pc = "loop" /\ gen_pc = "returned") =>
          /\ \A q \in DOMAIN new_examples :
                 /\ q \in DOMAIN examples <=> ~HasEquivalentBefore(q)
                 /\ q \in DOMAIN examples => examples[q] = new_examples[q]
          /\ DOMAIN examples \subseteq existing_programs \cup DOMAIN new_examples
          /\ existing_programs \subseteq DOMAIN examples

\* two workers have shared a batch of three programs, of which one was
\* merged and one was discarded
MergedIffWitness ==
    /\ pc = "loop"
    /\ gen_pc = "returned"
    /\ num_workers = 2
    /\ Len(new_programs) = 3
    /\ \E q \in DOMAIN new_examples : q \in DOMAIN examples
    /\ \E q \in DOMAIN new_examples : q \notin DOMAIN examples


(***************************************************************************)
(* C13: after the test sampling of a length, every candidate of the length *)
(* that was neither accepted into the test set nor judged equivalent to an *)
(* accepted program is in the training pool.                               *)
(***************************************************************************)
JudgedDuplicate(q) ==
    \E a \in Range(test_programs) : is_same(a, q, examples[a])

NoCandidateLost ==
    (pc = "tests" /\ test_len \in DOMAIN test_files) =>
        \A q \in Range(test_candidates) :
            \/ q \in Range(test_programs)
            \/ JudgedDuplicate(q)
            \/ q \in train_programs

(***************************************************************************)
(* C15: a test set never holds more than num_test programs, each of its    *)
(* programs has the test length, and the sampling of a length ends with    *)
(* num_test programs retained or with the candidates exhausted.            *)
(***************************************************************************)
TestSetWithinCount ==
    /\ Len(test_programs) <= num_test
    /\ \A k \in 1..Len(test_programs) : Len(test_programs[k].statements) = test_len
    /\ \A l \in DOMAIN test_files :
           /\ Len(test_files[l]) <= num_test
           /\ \A k \in 1..Len(test_files[l]) :
                  Len(test_files[l][k].program.statements) = l
    /\ (pc = "tests" /\ test_len \in DOMAIN test_files) =>
           \/ Len(test_programs) = num_test
           \/ ti = Len(test_candidates)

\* the sampling of a length has ended with num_test programs and with
\* candidates that the loop did not reach
TestSetWithinCountWitness ==
    /\ pc = "tests"
    /\ test_len \in DOMAIN test_files
    /\ Len(test_programs) = num_test
    /\ ti < Len(test_candidates)

(***************************************************************************)
(* C19: no program is written to two outputs: the programs of a test file  *)
(* are not in the training pool nor in the train file, and the test files  *)
(* of two lengths share no program.                                        *)
(***************************************************************************)
TestProgramsOf(l) == {test_files[l][k].program : k \in 1..Len(test_files[l])}

OutputsDisjoint ==
    /\ \A l \in DOMAIN test_files : TestProgramsOf(l) \cap train_programs = {}
    /\ \A l \in DOMAIN test_files :
           \A r \in train_file.records : r.program \notin TestProgramsOf(l)
    /\ \A l1, l2 \in DOMAIN test_files :
           l1 # l2 => TestProgramsOf(l1) \cap TestProgramsOf(l2) = {}

\* the train file and the test files of two lengths are written, none empty
OutputsDisjointWitness ==
    /\ pc = "done"
    /\ train_file.records # {}
    /\ \E l1, l2 \in DOMAIN test_files :
           l1 # l2 /\ Len(test_files[l1]) > 0 /\ Len(test_files[l2]) > 0


(***************************************************************************)
(* C17: the build loop visits the lengths L0+1, L0+2, ... up to            *)
(* max_train_len, one after the other and each once, where L0 is the       *)
(* largest length of a program of the loaded cache, or 0 when no program   *)
(* is cached; when L0 >= max_train_len nothing is generated and the loaded *)
(* corpus goes unchanged to test sampling.                                 *)
(***************************************************************************)
LoadedLen == IF cache.given /\ Len(cache.lines) > 0 THEN CachedMax ELSE 0

LoadedCorpus == IF cache.given THEN load_cache(cache.lines) ELSE EmptyDict

LengthsInRange ==
    ~HasMalformedRecord =>
        /\ pc # "crashed"
        /\ pc # "start" =>
              /\ gen_pc = "idle" => program_len = LoadedLen
              /\ gen_pc # "idle" =>
                     LoadedLen < program_len /\ program_len <= max_train_len
              /\ pc \in {"tests", "sampling", "done"} =>
                     IF LoadedLen >= max_train_len
                     THEN gen_pc = "idle" /\ examples = LoadedCorpus
                     ELSE program_len = max_train_len

NextLength ==
    (pc # "start" /\ program_len' # program_len) =>
        pc = "loop" /\ program_len' = program_len + 1

BuildLoopLengths == [](LengthsInRange) /\ [][NextLength]_vars


(***************************************************************************)
(* C14: the programs accepted by all the enumeration workers of a length   *)
(* are never more than the quota plus the number of workers that can run   *)
(* at a time minus one.                                                    *)
(***************************************************************************)
ConcurrentWorkers == Min(num_workers, Cardinality(Tasks))

OvershootBounded == TotalAccepted <= num_programs + ConcurrentWorkers - 1


(***************************************************************************)
(* C20: get_input_type_combinations(n) holds, each once, exactly the       *)
(* n(n+1)/2 signatures of 1 to n slots with at least one list slot and all *)
(* list slots before all int slots; no worker is given a signature made    *)
(* of int slots only.                                                      *)
(***************************************************************************)
ListsFirst(sig) ==
    /\ sig[1] = LIST
    /\ \A k \in 1..(Len(sig) - 1) : sig[k] = INT => sig[k + 1] = INT

ExpectedSignatures(n) ==
    {sig \in UNION {[1..k -> {LIST, INT}] : k \in 1..n} : ListsFirst(sig)}

SignaturesExact ==
    /\ \A i, j \in 1..Len(input_type_combinations) :
           i # j => input_type_combinations[i] # input_type_combinations[j]
    /\ 2 * Len(input_type_combinations) = num_inputs * (num_inputs + 1)
    /\ Range(input_type_combinations) = ExpectedSignatures(num_inputs)
    /\ \A t \in Tasks :
           /\ wstate[t] # "pending" => LIST \in Range(input_type_combinations[t])
           /\ \A q \in res[t] : LIST \in Range(q.input_types)

\* with two inputs, every signature was handed to a worker and the worker
\* of a signature with an int slot has found a program
SignaturesWitness ==
    /\ num_inputs = 2
    /\ \A t \in Tasks : wstate[t] = "returned"
    /\ \E t \in Tasks : INT \in Range(input_type_combinations[t]) /\ res[t] # {}


(***************************************************************************)
(* C16: a call of helper that returns without success has tried every      *)
(* function of the catalog exactly once in its loop, whatever the deeper   *)
(* calls' shuffles did to the list.                                        *)
(***************************************************************************)
\* the functions the loop of a call will have fetched when it ends from here
\* without a further recursive call
TriedAtReturn(t) ==
    LET top == stack[t][Len(stack[t])]
    IN top.tried \o SubSeq(functions[t], top.fi + 1, Len(functions[t]))

ReturnsWithoutSuccess(t) ==
    /\ wstate[t] = "iter"
    /\ ~NextCandidate(stack[t][Len(stack[t])], functions[t]).found

EveryFunctionOnce ==
    \A t \in Tasks :
        ReturnsWithoutSuccess(t) =>
            /\ Len(TriedAtReturn(t)) = Len(ALL_FUNCTIONS)
            /\ Range(TriedAtReturn(t)) = Range(ALL_FUNCTIONS)

(***************************************************************************)
(* C18: one call of helper from the driver loop adds at most one program   *)
(* to the worker's result set, line 86 is executed once for each program   *)
(* added, and after the increment no call of helper is left: the True has  *)
(* gone up through every enclosing level.                                  *)
(***************************************************************************)
Incrementing(t) == wstate[t] \in {"inc_read", "inc_write"}

OneProgramPerRestart ==
    \A t \in Tasks :
        /\ added[t] <= 1
        /\ Cardinality(res[t]) = increments[t] + (IF Incrementing(t) THEN 1 ELSE 0)
        /\ (added[t] = 1 /\ ~Incrementing(t)) => (wstate[t] = "while" /\ stack[t] = <<>>)

\* a worker has added its second program, two levels below the driver loop,
\* and is back at the loop
OneProgramPerRestartWitness ==
    \E t \in Tasks :
        /\ program_len = 2
        /\ wstate[t] = "while"
        /\ added[t] = 1
        /\ increments[t] = 2

====
